---- MODULE Spec2Model ----
(***************************************************************************)
(* A model of pmslice-python: the replayable random sources RandClass and  *)
(* RandnClass (pmslice.py), the auxiliary sweep update_rand and the        *)
(* clamped estimator clamp_rand (pmslice.py), and the axis-aligned slice   *)
(* sampler slice_sweep (simple_slice.py).                                  *)
(*                                                                         *)
(* Real numbers are fixed-point integers with denominator One: the         *)
(* integer v stands for the real v / One.  Uniform draws are the grid      *)
(* points of [0,1); normal draws are whole numbers, so that the product    *)
(* of a direction and a step is exact on the grid.                         *)
(***************************************************************************)
EXTENDS Integers, Sequences, FiniteSets, TLC

VARIABLES
    rand_dict,   \* key -> source object [uu, nu, u_prop, pos, step, mx, mn]
    dropped,     \* SpecSrc: committed values the last operation discarded
    out,         \* SpecSrc: values emitted since the cursor was last reset
    prev,        \* SpecSrc: values emitted in the pass before the last restart
    accepted,    \* SpecSrc: <<values emitted before the last accept>>, while
                 \* no slice_propose or extension has followed it
    held,        \* SpecSrc: <<the memory of the last non-empty array returned>>
    clean,       \* SpecSrc: no accept, propose or extension since that restart
    keys,        \* Spec: the iteration order of rand_dict
    estimator,   \* Spec: which estimator the caller passes as log_fhat
    pc,          \* Spec: where update_rand stands
    idx,         \* Spec: position of the loop "for kk in rand_dict" in keys
    args,        \* Spec: the primary argument theta of update_rand
    Lp,          \* Spec: update_rand's Lp
    Lp_threshold,\* Spec: update_rand's Lp_threshold
    Lp_prop,     \* Spec: update_rand's Lp_prop
    memo,        \* Spec: theta -> first clamped value since the last update
    last,        \* Spec: the last clamped call since the last update began
    ev,          \* Spec: the last event of update_rand or clamp_rand
    order,       \* Spec: the sources accepted so far by this update_rand call
    eval_in,     \* Spec: the cursors the last estimator evaluation started at
    drawn,       \* Spec: what rand() returned to the slice_propose under test
    sw_pc,       \* SpecSweep: where slice_sweep stands
    sw_Lp,       \* SpecSweep: slice_sweep's argument Lp, <<>> for None
    xx,          \* SpecSweep: slice_sweep's xx, an array [shape, data]
    xx_shape,    \* SpecSweep: slice_sweep's xx_shape
    x_l,         \* SpecSweep: slice_sweep's x_l
    x_r,         \* SpecSweep: slice_sweep's x_r
    xprime,      \* SpecSweep: slice_sweep's xprime
    perm,        \* SpecSweep: slice_sweep's perm, shuffled
    axis,        \* SpecSweep: position of the loop "for dd in perm" in perm
    log_Px,      \* SpecSweep: slice_sweep's log_Px
    log_uprime,  \* SpecSweep: slice_sweep's log_uprime
    output_Lp,   \* SpecSweep: slice_sweep's output_Lp
    step_out,    \* SpecSweep: slice_sweep's argument step_out
    evals,       \* SpecSweep: kinds of evaluation made for the current axis
    ret,         \* SpecSweep: what slice_sweep returned
    updated      \* SpecSweep: the axes committed so far, in order

src_hist == <<dropped, out, prev, clean, accepted, held>>

upd_vars == <<keys, estimator, pc, idx, args, Lp, Lp_threshold, Lp_prop,
              memo, last, ev, order, eval_in, drawn>>

sweep_vars == <<sw_pc, sw_Lp, xx, xx_shape, x_l, x_r, xprime, perm, axis, log_Px,
                log_uprime, output_Lp, step_out, evals, ret, updated>>

vars == <<rand_dict, src_hist, upd_vars, sweep_vars>>

(***************************************************************************)
(* Numbers                                                                 *)
(***************************************************************************)
\* The real 1.0 in fixed point (self.mx - 1.0, 1 - fpart).
One == 4

\* Longest reservoir a source is driven to in SpecSrc.
MaxLen == 2

Max(a, b) == IF a >= b THEN a ELSE b

Min(a, b) == IF a <= b THEN a ELSE b

Abs(a) == IF a < 0 THEN 0 - a ELSE a

\* Fixed-point product of two fixed-point numbers, rounded to the nearest
\* grid point as a float product is rounded to the nearest float.
Mul(a, b) == (2 * a * b + One) \div (2 * One)

\* np.random.rand(): the grid points of [0, 1).
RandVals == 0 .. (One - 1)

\* np.random.randn() filling a RandnClass reservoir: the whole numbers -1.0
\* and 1.0.
RandnVals == {0 - One, One}

\* np.random.randn() drawing a direction nu: 1.0.  A direction of -1.0 with
\* step s combines as a direction of 1.0 with step -s (both rules are
\* symmetric in the sign of nu*step resp. of the turn), and steps of both
\* signs are proposed.
DirVals == {One}

SeqsOfLen(S, n) == [1 .. n -> S]

\* Python's s[a:b] for 0 <= a: the slice is clamped to the array.
Slice(s, a, b) == SubSeq(s, a + 1, Min(b, Len(s)))

RECURSIVE Prod(_)
\* np.prod(args); the product of no dimensions is 1.
Prod(shape) == IF shape = <<>> THEN 1 ELSE Head(shape) * Prod(Tail(shape))

(***************************************************************************)
(* RandClass / RandnClass                                                  *)
(***************************************************************************)
\* The class of the source stored under a key of rand_dict (demo.py).
ClassOf(kk) == IF kk = "randn" THEN "RandnClass" ELSE "RandClass"

\* The uniform draws a reservoir is filled with: two grid points of [0, 1).
ReservoirVals == {1, 2}

\* _rand of the class: the raw draws the reservoir is filled with.
RawVals(cls) == IF cls = "RandnClass" THEN RandnVals ELSE ReservoirVals

\* One element of RandClass._combine for target = |uu + nu*step|.
Reflect(target) ==
    LET ipart == target \div One
        fpart == target % One
        is_odd == (ipart % 2) = 1
    IN  IF is_odd THEN One - fpart ELSE fpart

\* cos(2*pi*step) for a step on the grid of quarter turns.
Cos2Pi(step) ==
    LET q == (step % One) \div (One \div 4)
    IN  CASE q = 0 -> 1 [] q = 1 -> 0 [] q = 2 -> 0 - 1 [] OTHER -> 0

\* sin(2*pi*step) for a step on the grid of quarter turns.
Sin2Pi(step) ==
    LET q == (step % One) \div (One \div 4)
    IN  CASE q = 0 -> 0 [] q = 1 -> 1 [] q = 2 -> 0 [] OTHER -> 0 - 1

\* RandClass._combine / RandnClass._combine, elementwise over the arrays.
combine(cls, uu, nu, step) ==
    IF cls = "RandnClass"
    THEN [i \in 1 .. Len(uu) |-> uu[i] * Cos2Pi(step) + nu[i] * Sin2Pi(step)]
    ELSE [i \in 1 .. Len(uu) |-> Reflect(Abs(uu[i] + Mul(nu[i], step)))]

\* accept leaving the bracket as the shrinks left it.
accept_old_bracket(self, new_nu, rnd) ==
    LET uu == Slice(self.u_prop, 0, self.pos)
    IN  [uu |-> uu, u_prop |-> uu, step |-> 0, nu |-> new_nu,
         mx |-> self.mx, mn |-> self.mn, pos |-> 0]

\* accept keeping the old committed values: self.uu = self.uu[:self.pos].
accept_stale(self, new_nu, rnd) ==
    LET uu == Slice(self.uu, 0, self.pos)
    IN  [uu |-> uu, u_prop |-> uu, step |-> 0, nu |-> new_nu,
         mx |-> rnd, mn |-> rnd - One, pos |-> 0]

\* accept committing one value too few: self.u_prop[:self.pos - 1].
accept_short(self, new_nu, rnd) ==
    LET uu == Slice(self.u_prop, 0, self.pos - 1)
    IN  [uu |-> uu, u_prop |-> uu, step |-> 0, nu |-> new_nu,
         mx |-> rnd, mn |-> rnd - One, pos |-> 0]

\* RandClass.accept; new_nu is randn(self.pos), rnd is rand().
accept(self, new_nu, rnd) ==
    LET uu == Slice(self.u_prop, 0, self.pos)
    IN  [uu |-> uu, u_prop |-> uu, step |-> 0, nu |-> new_nu,
         mx |-> rnd, mn |-> rnd - One, pos |-> 0]

\* RandClass.__init__: empty buffers, then accept().
NewSource(rnd) ==
    accept([uu |-> <<>>, nu |-> <<>>, u_prop |-> <<>>, pos |-> 0,
            step |-> 0, mx |-> 0, mn |-> 0], <<>>, rnd)

\* slice_shrink moving the wrong bound.
slice_shrink_swapped(self) ==
    IF self.step > 0
    THEN [self EXCEPT !.mn = self.step]
    ELSE [self EXCEPT !.mx = self.step]

\* RandClass.slice_shrink, up to its assertion.
slice_shrink(self) ==
    IF self.step > 0
    THEN [self EXCEPT !.mx = self.step]
    ELSE [self EXCEPT !.mn = self.step]

\* The assertion closing slice_shrink.
ShrinkAssert(self) == self.mx # self.mn

\* slice_propose combining at another step than the one it stores.
slice_propose_shifted(self, cls, rnd) ==
    LET step == self.mn + Mul(self.mx - self.mn, rnd)
    IN  [self EXCEPT !.step = step,
                     !.u_prop = combine(cls, self.uu, self.nu, step + 1),
                     !.pos = 0]

\* RandClass.slice_propose; rnd is rand().
slice_propose(self, cls, rnd) ==
    LET step == self.mn + Mul(self.mx - self.mn, rnd)
    IN  [self EXCEPT !.step = step,
                     !.u_prop = combine(cls, self.uu, self.nu, step),
                     !.pos = 0]

\* Whether RandClass.__call__ extends the reservoir for this request.
Extends(self, shape) == Prod(shape) > Len(self.uu) - self.pos

\* num_extend of RandClass.__call__ (0 when the reservoir suffices).
NumExtend(self, shape) ==
    IF Extends(self, shape) THEN Max(Prod(shape), Len(self.uu)) ELSE 0

\* The memory of a numpy array: the buffer it shares ("copy" when it owns its
\* data) and the offset of its first element in that buffer.
\* u_prop[pos:pos+num_needed], a basic slice, is a view of u_prop.
NpSlice(off) == [base |-> "u_prop", off |-> off]

\* .reshape(args) of a contiguous array is a view of the same memory.
NpReshape(m) == m

\* __call__ without the final .copy(): the answer stays a view of u_prop.
NpCopy_view(m) == m

\* .copy(): a new array that owns its data.
NpCopy(m) == [base |-> "copy", off |-> 0]

\* __call__ appending the fresh draws as they are to the proposed buffer.
call_uncombined(self, cls, shape, new_uu, new_nu) ==
    LET num_needed == Prod(shape)
        grown == IF Extends(self, shape)
                 THEN [self EXCEPT
                         !.uu = @ \o new_uu,
                         !.nu = @ \o new_nu,
                         !.u_prop = @ \o new_uu]
                 ELSE self
        ans == Slice(grown.u_prop, grown.pos, grown.pos + num_needed)
    IN  [self |-> [grown EXCEPT !.pos = @ + num_needed], ans |-> ans,
         mem |-> NpCopy(NpReshape(NpSlice(grown.pos)))]

\* __call__ replacing the buffers by the fresh draws.
call_replace(self, cls, shape, new_uu, new_nu) ==
    LET num_needed == Prod(shape)
        grown == IF Extends(self, shape)
                 THEN [self EXCEPT
                         !.uu = new_uu,
                         !.nu = new_nu,
                         !.u_prop = combine(cls, new_uu, new_nu, self.step)]
                 ELSE self
        ans == Slice(grown.u_prop, grown.pos, grown.pos + num_needed)
    IN  [self |-> [grown EXCEPT !.pos = @ + num_needed], ans |-> ans,
         mem |-> NpCopy(NpReshape(NpSlice(grown.pos)))]

\* __call__ putting the fresh draws in front of the buffers.
call_prepend(self, cls, shape, new_uu, new_nu) ==
    LET num_needed == Prod(shape)
        grown == IF Extends(self, shape)
                 THEN [self EXCEPT
                         !.uu = new_uu \o @,
                         !.nu = new_nu \o @,
                         !.u_prop = combine(cls, new_uu, new_nu, self.step) \o @]
                 ELSE self
        ans == Slice(grown.u_prop, grown.pos, grown.pos + num_needed)
    IN  [self |-> [grown EXCEPT !.pos = @ + num_needed], ans |-> ans,
         mem |-> NpCopy(NpReshape(NpSlice(grown.pos)))]

\* __call__ extending uu and u_prop but not the directions nu.
call_nu_not_extended(self, cls, shape, new_uu, new_nu) ==
    LET num_needed == Prod(shape)
        grown == IF Extends(self, shape)
                 THEN [self EXCEPT
                         !.uu = @ \o new_uu,
                         !.u_prop = @ \o combine(cls, new_uu, new_nu, self.step)]
                 ELSE self
        ans == Slice(grown.u_prop, grown.pos, grown.pos + num_needed)
    IN  [self |-> [grown EXCEPT !.pos = @ + num_needed], ans |-> ans,
         mem |-> NpCopy(NpReshape(NpSlice(grown.pos)))]

\* RandClass.__call__; new_uu, new_nu are the fresh draws of an extension.
\* The result is the source after the call and the flat data of the answer.
call(self, cls, shape, new_uu, new_nu) ==
    LET num_needed == Prod(shape)
        grown == IF Extends(self, shape)
                 THEN [self EXCEPT
                         !.uu = @ \o new_uu,
                         !.nu = @ \o new_nu,
                         !.u_prop = @ \o combine(cls, new_uu, new_nu, self.step)]
                 ELSE self
        ans == Slice(grown.u_prop, grown.pos, grown.pos + num_needed)
    IN  [self |-> [grown EXCEPT !.pos = @ + num_needed], ans |-> ans,
         mem |-> NpCopy(NpReshape(NpSlice(grown.pos)))]

\* The fresh draws __call__ makes: pairs <<new_uu, new_nu>>.
FreshDraws(self, cls, shape) ==
    SeqsOfLen(RawVals(cls), NumExtend(self, shape))
        \X SeqsOfLen(DirVals, NumExtend(self, shape))

\* _restart_rands resetting the cursor of the source 'rand' only.
restart_rands_one(rd) ==
    IF "rand" \in DOMAIN rd THEN [rd EXCEPT !["rand"].pos = 0] ELSE rd

\* _restart_rands leaving every cursor where it is.
restart_rands_noop(rd) == rd

RECURSIVE RestartKeys(_, _)
\* for kk in rand_dict: rand_dict[kk].pos = 0, over the keys still to visit.
RestartKeys(rd, todo) ==
    IF todo = {}
    THEN rd
    ELSE LET kk == CHOOSE k \in todo : TRUE
         IN  RestartKeys([rd EXCEPT ![kk].pos = 0], todo \ {kk})

\* _restart_rands: every source's cursor back to 0.
restart_rands(rd) == RestartKeys(rd, DOMAIN rd)

(***************************************************************************)
(* The estimator and update_rand's locals                                  *)
(***************************************************************************)
\* Largest primary argument theta the estimator is called with.
MaxTheta == 1

Thetas == 0 .. MaxTheta

\* np.log of a rand() that returned 0.
NegInf == -1000

\* np.log(np.random.rand()): -inf (rand() returned 0) and -0.25.  Estimator
\* values are multiples of 0.5, so a threshold of Lp - 0.25 accepts exactly
\* the proposals with Lp_prop >= Lp, and -inf accepts every proposal.
LogRand == {NegInf, 0 - 1}

\* Lp + np.log(...) in floating point: -inf absorbs.
AddLog(a, b) == IF a = NegInf \/ b = NegInf THEN NegInf ELSE a + b

RECURSIVE Sum(_)
\* np.sum
Sum(w) == IF w = <<>> THEN 0 ELSE Head(w) + Sum(Tail(w))

\* demo.log_f, for a scalar theta: -0.5*theta**2.
log_f(theta) == 0 - Mul(One \div 2, theta * theta * One)

\* K = np.ceil(c*rand()) of demo.log_fhat, with c = theta + 1 in place of 10:
\* how many normal draws the estimator asks for depends on theta and on the
\* uniform draw.
NumNormals(theta, u) == ((theta + 1) * u + One - 1) \div One

\* demo.log_fhat(theta, rand=rd["rand"], randn=rd["randn"]): the outcomes
\* [rd, val] of one evaluation, one for each choice of the fresh draws an
\* extension makes.
log_fhat(theta, rd) ==
    UNION {
        LET c1 == call(rd["rand"], "RandClass", <<>>, f1[1], f1[2])
            K == NumNormals(theta, c1.ans[1])
            rd1 == [rd EXCEPT !["rand"] = c1.self]
        IN  { LET c2 == call(rd1["randn"], "RandnClass", <<K>>, f2[1], f2[2])
              IN  [rd |-> [rd1 EXCEPT !["randn"] = c2.self],
                   val |-> log_f(theta) + Sum(c2.ans)
                              - Mul(One \div 2, K * One)]
              : f2 \in FreshDraws(rd1["randn"], "RandnClass", <<K>>) }
        : f1 \in FreshDraws(rd["rand"], "RandClass", <<>>) }

\* What a generator the estimator does not expose returns: 0.0 or -2.0.
HiddenVals == {0, 0 - 2 * One}

\* An estimator that breaks the contract of clamp_rand: it takes the
\* keyword arguments rand and randn and ignores them, its randomness is
\* np.random's and not the sources', so two calls on the same buffered
\* state return different values.
log_fhat_hidden(theta, rd) ==
    { [rd |-> rd, val |-> log_f(theta) + h] : h \in HiddenVals }

\* The cursor of every source of the dictionary.
Cursors(rd) == [kk \in DOMAIN rd |-> rd[kk].pos]

\* The estimator the caller passes.
Evaluate(est, theta, rd) ==
    IF est = "log_fhat" THEN log_fhat(theta, rd) ELSE log_fhat_hidden(theta, rd)

\* An event of update_rand on the source kk ("" when on none).
Event(kind, kk) == [kind |-> kind, kk |-> kk]

\* The loop test never passing: every proposal is shrunk.
Passes_never(lp_prop, lp_threshold) == FALSE

\* The test that leaves the loop: Lp_prop >= Lp_threshold.
Passes(lp_prop, lp_threshold) == lp_prop >= lp_threshold

\* No update_rand call is running and none has run.
UpdIdle ==
    /\ pc = "idle"
    /\ idx = 0
    /\ args = 0
    /\ Lp = 0
    /\ Lp_threshold = 0
    /\ Lp_prop = 0
    /\ memo = [th \in Thetas |-> <<>>]
    /\ last = <<>>
    /\ ev = Event("none", "")
    /\ order = <<>>
    /\ eval_in = <<>>
    /\ drawn = <<>>

(***************************************************************************)
(* slice_sweep: arrays and the log-density                                 *)
(***************************************************************************)
\* Largest number of elements of the array given to slice_sweep.
MaxD == 2

\* A numpy array: its shape and its elements in C order.
Array(shape, data) == [shape |-> shape, data |-> data]

\* xx.size
Size(a) == Len(a.data)

\* xx.ravel().copy(): a new one-dimensional array of the same elements.
ravel(a) == Array(<<Size(a)>>, a.data)

\* np.reshape(x, xx_shape)
reshape(a, shape) == Array(shape, a.data)

\* a[d] = v on a one-dimensional array.
SetItem(a, d, v) == [a EXCEPT !.data[d] = v]

\* The commit writing to the first coordinate.
Commit_first(a, cand, d) == SetItem(a, 1, cand.data[d])

\* The commit leaving the array as it was.
Commit_none(a, cand, d) == a

\* xx[dd] = xprime[dd] (and the same for x_l, x_r).
Commit(a, cand, d) == SetItem(a, d, cand.data[d])

\* The log-density is -inf outside [-1.0, 1.0] in every coordinate.
Support == One

\* One coordinate's term of the log-density: -|v| on the support.
LogTerm(v) == IF Abs(v) > Support THEN NegInf ELSE 0 - Abs(v)

RECURSIVE LogTerms(_)
LogTerms(w) ==
    IF w = <<>> THEN 0 ELSE AddLog(LogTerm(Head(w)), LogTerms(Tail(w)))

\* logdist: a deterministic log-density of an array of any shape, the
\* unnormalised Laplace density truncated to the support.
logdist(a) == LogTerms(a.data)

\* logdist_vec = lambda x: logdist(np.reshape(x, xx_shape))
logdist_vec(a, shape) == logdist(reshape(a, shape))

\* The slice level put at the current log-density itself.
SliceLevel_at(lp, lr) == lp

\* log_uprime = log_Px + np.log(np.random.rand())
SliceLevel(lp, lr) == AddLog(lp, lr)

\* The permutations np.random.shuffle can leave in perm = range(D).
Perms(n) == {f \in [1 .. n -> 1 .. n] : \A i, j \in 1 .. n : f[i] = f[j] => i = j}

\* slice_sweep has not been called.
SweepIdle ==
    /\ sw_pc = "idle"
    /\ sw_Lp = <<>>
    /\ xx = Array(<<0>>, <<>>)
    /\ xx_shape = <<>>
    /\ x_l = Array(<<0>>, <<>>)
    /\ x_r = Array(<<0>>, <<>>)
    /\ xprime = Array(<<0>>, <<>>)
    /\ perm = <<>>
    /\ axis = 0
    /\ log_Px = 0
    /\ log_uprime = 0
    /\ output_Lp = FALSE
    /\ step_out = FALSE
    /\ evals = {}
    /\ ret = <<>>
    /\ updated = <<>>

(***************************************************************************)
(* SpecSrc: one source driven by any sequence of its operations             *)
(***************************************************************************)
\* The shapes requested of a source: up to two dimensions.
Shapes == {<<>>} \cup SeqsOfLen(0 .. MaxLen, 1) \cup {<<2, n>> : n \in 0 .. 1}

\* How many committed values a step from source a to source b discards.
Dropped(a, b) == Max(Len(a.uu) - Len(b.uu), 0)

SrcInit ==
    /\ \E kk \in {"rand", "randn"}, rnd \in RandVals :
          /\ rand_dict = [k \in {kk} |-> NewSource(rnd)]
          /\ keys = <<kk>>
    /\ estimator = "log_fhat"
    /\ dropped = 0
    /\ out = <<>>
    /\ prev = <<>>
    /\ clean = FALSE
    /\ accepted = <<>>
    /\ held = <<>>
    /\ UpdIdle
    /\ SweepIdle

\* What the caller's array shares after the source assigned a new array to
\* the attribute named from: the memory it viewed is now the one named to.
Rebound(h, from, to) ==
    IF h # <<>> /\ h[1].base = from THEN <<[h[1] EXCEPT !.base = to]>> ELSE h

\* The values the caller may write into an array it was given.
MutVals == {0, One - 1}

\* The source after the caller wrote v into the first element of the array
\* m: a write to a view lands in the buffer it shares, a write to a copy
\* does not.
Written(self, m, v) ==
    IF m.base = "u_prop" /\ m.off + 1 <= Len(self.u_prop)
    THEN [self EXCEPT !.u_prop[m.off + 1] = v]
    ELSE IF m.base = "uu" /\ m.off + 1 <= Len(self.uu)
    THEN [self EXCEPT !.uu[m.off + 1] = v]
    ELSE self

\* source(*args): one emission.
SrcEmit ==
    \E kk \in DOMAIN rand_dict, shape \in Shapes :
        LET self == rand_dict[kk] IN
        /\ Len(self.uu) + NumExtend(self, shape) <= MaxLen
        /\ \E fresh \in FreshDraws(self, ClassOf(kk), shape) :
              LET res == call(self, ClassOf(kk), shape, fresh[1], fresh[2]) IN
              /\ rand_dict' = [rand_dict EXCEPT ![kk] = res.self]
              /\ out' = out \o res.ans
              /\ held' = IF res.ans = <<>> THEN held
                          ELSE <<[key |-> kk, base |-> res.mem.base,
                                  off |-> res.mem.off,
                                  dirty |-> held # <<>> /\ held[1].dirty]>>
              /\ dropped' = Dropped(self, res.self)
        /\ clean' = (clean /\ ~Extends(self, shape))
        /\ accepted' = IF Extends(self, shape) THEN <<>> ELSE accepted
        /\ prev' = IF Extends(self, shape) THEN <<>> ELSE prev
        /\ UNCHANGED <<upd_vars, sweep_vars>>

\* _restart_rands on the dictionary holding the source.
SrcRestart ==
    /\ rand_dict' = restart_rands(rand_dict)
    /\ prev' = out
    /\ out' = <<>>
    /\ clean' = TRUE
    /\ dropped' = 0
    /\ accepted' = accepted
    /\ held' = held
    /\ UNCHANGED <<upd_vars, sweep_vars>>

SrcPropose ==
    \E kk \in DOMAIN rand_dict, rnd \in RandVals :
        LET new == slice_propose(rand_dict[kk], ClassOf(kk), rnd) IN
        /\ rand_dict' = [rand_dict EXCEPT ![kk] = new]
        /\ dropped' = Dropped(rand_dict[kk], new)
        /\ out' = <<>>
        /\ prev' = <<>>
        /\ clean' = FALSE
        /\ accepted' = <<>>
        /\ held' = Rebound(held, "u_prop", "old")
        /\ UNCHANGED <<upd_vars, sweep_vars>>

\* slice_shrink; a failed assertion leaves the bounds as assigned.
SrcShrink ==
    \E kk \in DOMAIN rand_dict :
        LET new == slice_shrink(rand_dict[kk]) IN
        /\ rand_dict' = [rand_dict EXCEPT ![kk] = new]
        /\ dropped' = Dropped(rand_dict[kk], new)
        /\ UNCHANGED <<out, prev, clean, accepted, held>>
        /\ UNCHANGED <<upd_vars, sweep_vars>>

SrcAccept ==
    \E kk \in DOMAIN rand_dict, rnd \in RandVals :
        \E new_nu \in SeqsOfLen(DirVals, rand_dict[kk].pos) :
            LET new == accept(rand_dict[kk], new_nu, rnd) IN
            /\ rand_dict' = [rand_dict EXCEPT ![kk] = new]
            /\ dropped' = Dropped(rand_dict[kk], new)
            /\ out' = <<>>
            /\ prev' = <<>>
            /\ clean' = FALSE
            /\ accepted' = <<out>>
            /\ held' = Rebound(Rebound(held, "uu", "old"), "u_prop", "uu")
            /\ UNCHANGED <<upd_vars, sweep_vars>>

\* The caller assigns to the first element of the last non-empty array an
\* emission returned.
SrcMutate ==
    /\ held # <<>>
    /\ \E v \in MutVals :
          rand_dict' = [rand_dict EXCEPT
                          ![held[1].key] = Written(@, held[1], v)]
    /\ held' = <<[held[1] EXCEPT !.dirty = TRUE]>>
    /\ dropped' = 0
    /\ UNCHANGED <<out, prev, clean, accepted>>
    /\ UNCHANGED <<upd_vars, sweep_vars>>

SrcNext ==
    SrcEmit \/ SrcRestart \/ SrcPropose \/ SrcShrink \/ SrcAccept \/ SrcMutate

SpecSrc == SrcInit /\ [][SrcNext]_vars

(***************************************************************************)
(* Spec: demo.py's pseudo-marginal chain: clamped calls and update_rand     *)
(***************************************************************************)
\* pm_rand = {'rand': RandClass(), 'randn': RandnClass()}, in either
\* iteration order.
NewDict ==
    /\ \E r1 \in RandVals, r2 \in RandVals :
          rand_dict = [kk \in {"rand", "randn"} |->
                         IF kk = "rand" THEN NewSource(r1) ELSE NewSource(r2)]
    /\ keys \in {<<"rand", "randn">>, <<"randn", "rand">>}
    /\ dropped = 0
    /\ out = <<>>
    /\ prev = <<>>
    /\ clean = FALSE
    /\ accepted = <<>>
    /\ held = <<>>
    /\ UpdIdle
    /\ SweepIdle

\* The chain of demo.py: the estimator draws only through the sources.
Init == NewDict /\ estimator = "log_fhat"

\* The chain of demo.py with the sources in the order of its dictionary
\* literal.
InitFair == Init /\ keys = <<"rand", "randn">>

\* The same chain with the estimator that breaks the contract.
InitHidden == NewDict /\ estimator = "log_fhat_hidden"

\* clamp_rand(log_fhat, rand_dict)(theta), between update_rand calls.
Clamped ==
    /\ pc \in {"idle", "done"}
    /\ \E theta \in Thetas :
        \E o \in Evaluate(estimator, theta, restart_rands(rand_dict)) :
            /\ rand_dict' = o.rd
            /\ last' = << [theta |-> theta, val |-> o.val,
                           again |-> memo[theta] # <<>>] >>
            /\ memo' = [th \in Thetas |->
                          IF th = theta /\ memo[th] = <<>>
                          THEN << [val |-> o.val, grown |-> FALSE] >>
                          ELSE IF memo[th] # <<>>
                                  /\ \E kk \in DOMAIN rand_dict :
                                        Len(o.rd[kk].uu) > Len(rand_dict[kk].uu)
                          THEN << [memo[th][1] EXCEPT !.grown = TRUE] >>
                          ELSE memo[th]]
    /\ ev' = Event("clamped", "")
    /\ eval_in' = <<Cursors(restart_rands(rand_dict))>>
    /\ UNCHANGED <<keys, estimator, pc, idx, args, Lp, Lp_threshold, Lp_prop,
                   order, drawn>>
    /\ UNCHANGED <<src_hist, sweep_vars>>

\* update_rand(log_fhat, rand_dict, Lp, theta) up to the loop over the
\* sources; the Lp passed is None or the value the last clamped call
\* returned for this theta.
UR_Call ==
    /\ pc \in {"idle", "done"}
    /\ \E theta \in Thetas :
        /\ args' = theta
        /\ \/ \E o \in Evaluate(estimator, theta, restart_rands(rand_dict)) :
                 /\ rand_dict' = o.rd
                 /\ Lp' = o.val
                 /\ eval_in' = <<Cursors(restart_rands(rand_dict))>>
           \/ /\ last # <<>>
              /\ last[1].theta = theta
              /\ Lp' = last[1].val
              /\ UNCHANGED <<rand_dict, eval_in>>
    /\ pc' = "for"
    /\ idx' = 1
    /\ Lp_threshold' = 0
    /\ Lp_prop' = 0
    /\ memo' = [th \in Thetas |-> <<>>]
    /\ last' = <<>>
    /\ ev' = Event("call", "")
    /\ order' = <<>>
    /\ UNCHANGED <<keys, estimator, drawn>>
    /\ UNCHANGED <<src_hist, sweep_vars>>

\* for kk in rand_dict: ... Lp_threshold = Lp + log(rand())
UR_Threshold ==
    /\ pc = "for"
    /\ \E logu \in LogRand : Lp_threshold' = AddLog(Lp, logu)
    /\ pc' = "loop"
    /\ ev' = Event("threshold", keys[idx])
    /\ UNCHANGED <<rand_dict, keys, estimator, idx, args, Lp, Lp_prop,
                   memo, last, order, eval_in, drawn>>
    /\ UNCHANGED <<src_hist, sweep_vars>>

\* rr.slice_propose(), its rand() returning rnd; _restart_rands(rand_dict);
\* Lp_prop = log_fhat(...)
UR_ProposeAt(rnd) ==
    /\ pc = "loop"
    /\ LET kk == keys[idx]
           rd == [rand_dict EXCEPT
                    ![kk] = slice_propose(@, ClassOf(kk), rnd)]
       IN  \E o \in Evaluate(estimator, args, restart_rands(rd)) :
               /\ rand_dict' = o.rd
               /\ Lp_prop' = o.val
               /\ eval_in' = <<Cursors(restart_rands(rd))>>
    /\ pc' = "test"
    /\ ev' = Event("round", keys[idx])
    /\ drawn' = <<rnd>>
    /\ UNCHANGED <<keys, estimator, idx, args, Lp, Lp_threshold, memo, last,
                   order>>
    /\ UNCHANGED <<src_hist, sweep_vars>>

UR_Propose == \E rnd \in RandVals : UR_ProposeAt(rnd)

\* Lp_prop < Lp_threshold: rr.slice_shrink(), whose assertion may fail.
UR_Shrink ==
    /\ pc = "test"
    /\ ~Passes(Lp_prop, Lp_threshold)
    /\ LET kk == keys[idx]
           rr == slice_shrink(rand_dict[kk])
       IN  /\ rand_dict' = [rand_dict EXCEPT ![kk] = rr]
           /\ pc' = IF ShrinkAssert(rr) THEN "loop" ELSE "failed"
    /\ ev' = Event("shrink", keys[idx])
    /\ drawn' = <<>>
    /\ UNCHANGED <<keys, estimator, idx, args, Lp, Lp_threshold, Lp_prop,
                   memo, last, order, eval_in>>
    /\ UNCHANGED <<src_hist, sweep_vars>>

\* Lp_prop >= Lp_threshold: break; rr.accept(); Lp = Lp_prop; then the next
\* source, or return Lp after the last one.
UR_Accept ==
    /\ pc = "test"
    /\ Passes(Lp_prop, Lp_threshold)
    /\ LET kk == keys[idx] IN
       \E rnd \in RandVals :
       \E new_nu \in SeqsOfLen(DirVals, rand_dict[kk].pos) :
           rand_dict' = [rand_dict EXCEPT ![kk] = accept(@, new_nu, rnd)]
    /\ Lp' = Lp_prop
    /\ Lp_prop' = 0
    /\ Lp_threshold' = 0
    /\ IF idx < Len(keys)
       THEN idx' = idx + 1 /\ pc' = "for"
       ELSE idx' = 0 /\ pc' = "done"
    /\ ev' = Event("accept", keys[idx])
    /\ drawn' = <<>>
    /\ order' = Append(order, keys[idx])
    /\ UNCHANGED <<keys, estimator, args, memo, last, eval_in>>
    /\ UNCHANGED <<src_hist, sweep_vars>>

Next == Clamped \/ UR_Call \/ UR_Threshold \/ UR_Propose \/ UR_Shrink
           \/ UR_Accept

Spec == Init /\ [][Next]_vars

\* update_rand called again and again with Lp = None.
NextUpd == UR_Call \/ UR_Threshold \/ UR_Propose \/ UR_Shrink \/ UR_Accept

\* Repeated update_rand calls when the program keeps running (the test
\* after an evaluation is followed by its shrink or accept) and the rand()
\* of slice_propose is fair: a loop that proposes again and again gets every
\* value of rand() again and again.  UR_ProposeAt(rnd) is enabled exactly
\* when pc = "loop" and leads to drawn = <<rnd>>, so this is strong fairness
\* of UR_ProposeAt(rnd).
SpecFair ==
    /\ InitFair
    /\ [][NextUpd]_vars
    /\ WF_vars(UR_Threshold \/ UR_Shrink \/ UR_Accept)
    /\ \A rnd \in RandVals : []<>(pc = "loop") => []<>(drawn = <<rnd>>)

\* The chain with the contract-breaking estimator.  The program is
\* single-threaded and synchronous: it keeps running while it can.
SpecHidden == InitHidden /\ [][Next]_vars /\ WF_vars(Next)

(***************************************************************************)
(* SpecSweep: one call of slice_sweep                                      *)
(***************************************************************************)
\* The shapes of the array xx: zero, one and two dimensions.
SweepShapes ==
    {<<>>} \cup {<<n>> : n \in 0 .. MaxD} \cup {<<1, n>> : n \in 2 .. MaxD}

\* The elements of the array xx: 0.0 and 1.0, where the log-density is
\* finite, and 1.25, where it is -inf.
StartVals == {0, One, One + 1}

\* The caller's arguments: xx, Lp (None, or logdist(xx) already evaluated)
\* and step_out; widths keeps its default 1.0.
SweepInit ==
    /\ rand_dict = <<>>
    /\ keys = <<>>
    /\ estimator = "log_fhat"
    /\ dropped = 0
    /\ out = <<>>
    /\ prev = <<>>
    /\ clean = FALSE
    /\ accepted = <<>>
    /\ held = <<>>
    /\ UpdIdle
    /\ sw_pc = "start"
    /\ \E shape \in SweepShapes :
          /\ xx \in {Array(shape, data) : data \in SeqsOfLen(StartVals, Prod(shape))}
          /\ xx_shape = shape
    /\ x_l = Array(<<0>>, <<>>)
    /\ x_r = Array(<<0>>, <<>>)
    /\ xprime = Array(<<0>>, <<>>)
    /\ perm = <<>>
    /\ sw_Lp \in {<<>>, <<logdist(xx)>>}
    /\ axis = 0
    /\ log_Px = 0
    /\ log_uprime = 0
    /\ output_Lp = FALSE
    /\ step_out \in BOOLEAN
    /\ evals = {}
    /\ ret = <<>>
    /\ updated = <<>>

\* The axis being updated, dd.
dd == perm[axis]

\* slice_sweep lines 28-48: log_Px is logdist(xx) or the Lp given; xx is
\* flattened and copied; perm is shuffled.
SW_Startup ==
    /\ sw_pc = "start"
    /\ output_Lp' = (sw_Lp # <<>>)
    /\ log_Px' = IF sw_Lp = <<>> THEN logdist(xx) ELSE sw_Lp[1]
    /\ xx' = ravel(xx)
    /\ x_l' = ravel(xx)
    /\ x_r' = ravel(xx)
    /\ xprime' = ravel(xx)
    /\ perm' \in Perms(Size(xx))
    /\ axis' = 1
    /\ sw_pc' = IF Size(xx) >= 1 THEN "axis" ELSE "return"
    /\ UNCHANGED <<sw_Lp, xx_shape, log_uprime, step_out, evals, ret, updated>>
    /\ UNCHANGED <<rand_dict, src_hist, upd_vars>>

\* Lines 49-54: the slice level and the initial interval around xx[dd].
SW_Axis ==
    /\ sw_pc = "axis"
    /\ \E lr \in LogRand, rr \in RandVals :
          /\ log_uprime' = SliceLevel(log_Px, lr)
          /\ x_l' = SetItem(x_l, dd, xx.data[dd] - Mul(rr, One))
          /\ x_r' = SetItem(x_r, dd, xx.data[dd] + Mul(One - rr, One))
    /\ evals' = {}
    /\ sw_pc' = IF step_out THEN "out_l" ELSE "inner"
    /\ UNCHANGED <<sw_Lp, xx, xx_shape, xprime, perm, axis, log_Px, output_Lp,
                   step_out, ret, updated>>
    /\ UNCHANGED <<rand_dict, src_hist, upd_vars>>

\* Lines 57-58: one test of the left end, and one step out if it is inside
\* the slice.
SW_StepOutL ==
    /\ sw_pc = "out_l"
    /\ evals' = evals \cup {"x_l"}
    /\ IF logdist_vec(x_l, xx_shape) > log_uprime
       THEN /\ x_l' = SetItem(x_l, dd, x_l.data[dd] - One)
            /\ sw_pc' = "out_l"
       ELSE /\ x_l' = x_l
            /\ sw_pc' = "out_r"
    /\ UNCHANGED <<sw_Lp, xx, xx_shape, x_r, xprime, perm, axis, log_Px,
                   log_uprime, output_Lp, step_out, ret, updated>>
    /\ UNCHANGED <<rand_dict, src_hist, upd_vars>>

\* Lines 59-60: the same for the right end.
SW_StepOutR ==
    /\ sw_pc = "out_r"
    /\ evals' = evals \cup {"x_r"}
    /\ IF logdist_vec(x_r, xx_shape) > log_uprime
       THEN /\ x_r' = SetItem(x_r, dd, x_r.data[dd] + One)
            /\ sw_pc' = "out_r"
       ELSE /\ x_r' = x_r
            /\ sw_pc' = "inner"
    /\ UNCHANGED <<sw_Lp, xx, xx_shape, x_l, xprime, perm, axis, log_Px,
                   log_uprime, output_Lp, step_out, ret, updated>>
    /\ UNCHANGED <<rand_dict, src_hist, upd_vars>>

\* Lines 65-77: one candidate, its evaluation, and the shrink of the
\* interval or the exception when it is rejected.
SW_Inner ==
    /\ sw_pc = "inner"
    /\ \E rnd \in RandVals :
          LET cand == SetItem(xprime, dd,
                              Mul(rnd, x_r.data[dd] - x_l.data[dd]) + x_l.data[dd])
              val == logdist_vec(cand, xx_shape)
          IN  /\ xprime' = cand
              /\ log_Px' = val
              /\ IF val > log_uprime
                 THEN /\ sw_pc' = "commit"
                      /\ evals' = evals \cup {"accepted"}
                      /\ UNCHANGED <<x_l, x_r>>
                 ELSE /\ evals' = evals \cup {"rejected"}
                      /\ IF cand.data[dd] > xx.data[dd]
                         THEN /\ x_r' = SetItem(x_r, dd, cand.data[dd])
                              /\ x_l' = x_l
                              /\ sw_pc' = "inner"
                         ELSE IF cand.data[dd] < xx.data[dd]
                         THEN /\ x_l' = SetItem(x_l, dd, cand.data[dd])
                              /\ x_r' = x_r
                              /\ sw_pc' = "inner"
                         ELSE /\ UNCHANGED <<x_l, x_r>>
                              /\ sw_pc' = "raised"
    /\ UNCHANGED <<sw_Lp, xx, xx_shape, perm, axis, log_uprime, output_Lp,
                   step_out, ret, updated>>
    /\ UNCHANGED <<rand_dict, src_hist, upd_vars>>

\* Lines 78-80, and the next turn of "for dd in perm".
SW_Commit ==
    /\ sw_pc = "commit"
    /\ xx' = Commit(xx, xprime, dd)
    /\ x_l' = Commit(x_l, xprime, dd)
    /\ x_r' = Commit(x_r, xprime, dd)
    /\ updated' = Append(updated, dd)
    /\ IF axis < Len(perm)
       THEN axis' = axis + 1 /\ sw_pc' = "axis"
       ELSE axis' = axis /\ sw_pc' = "return"
    /\ UNCHANGED <<sw_Lp, xx_shape, xprime, perm, log_Px, log_uprime,
                   output_Lp, step_out, evals, ret>>
    /\ UNCHANGED <<rand_dict, src_hist, upd_vars>>

\* Lines 82-85: return xx, log_Px or return xx.
SW_Return ==
    /\ sw_pc = "return"
    /\ ret' = <<[xx |-> xx, Lp |-> IF output_Lp THEN <<log_Px>> ELSE <<>>]>>
    /\ sw_pc' = "returned"
    /\ UNCHANGED <<sw_Lp, xx, xx_shape, x_l, x_r, xprime, perm, axis, log_Px,
                   log_uprime, output_Lp, step_out, evals, updated>>
    /\ UNCHANGED <<rand_dict, src_hist, upd_vars>>

SweepNext ==
    \/ SW_Startup
    \/ SW_Axis
    \/ SW_StepOutL
    \/ SW_StepOutR
    \/ SW_Inner
    \/ SW_Commit
    \/ SW_Return

SpecSweep == SweepInit /\ [][SweepNext]_vars

(***************************************************************************)
(* Claims about a single source (SpecSrc)                                  *)
(***************************************************************************)
\* C2: after a restart, re-requesting values yields, position by position,
\* the values of the previous pass, as long as no accept, no slice_propose
\* and no reservoir extension happened since that restart.
C2_ReplayDeterminism ==
    clean => \A i \in 1 .. Min(Len(out), Len(prev)) : out[i] = prev[i]

\* A replay of two values at a non-zero step, both passes two values long.
C2_Witness ==
    /\ clean
    /\ Len(out) >= 2
    /\ Len(prev) >= 2
    /\ \E kk \in DOMAIN rand_dict : rand_dict[kk].step # 0

\* C9: the committed (uu), direction (nu) and proposed (u_prop) buffers have
\* equal length, and the proposed buffer is at least as long as the cursor.
C9_ReservoirLengths ==
    \A kk \in DOMAIN rand_dict :
        LET self == rand_dict[kk] IN
        /\ Len(self.uu) = Len(self.nu)
        /\ Len(self.nu) = Len(self.u_prop)
        /\ Len(self.u_prop) >= self.pos

\* A reservoir that was extended at a non-zero step and is emitted to its end.
C9_Witness ==
    \E kk \in DOMAIN rand_dict :
        LET self == rand_dict[kk] IN
        /\ Len(self.uu) >= 2
        /\ self.pos = Len(self.uu)
        /\ self.step # 0
        /\ ~clean
        /\ Len(out) = self.pos

\* C10 as stated: no operation ever makes the committed buffer shorter.
C10_NeverShrinks ==
    [][\A kk \in DOMAIN rand_dict :
          Len(rand_dict'[kk].uu) >= Len(rand_dict[kk].uu)]_vars

\* C10 as amended: the committed buffer gets shorter only in accept(), which
\* cuts it to the cursor; emit, restart, slice_propose and slice_shrink never
\* shorten it.
C10_ShrinksOnlyAtAccept ==
    [][\A kk \in DOMAIN rand_dict :
          Len(rand_dict'[kk].uu) < Len(rand_dict[kk].uu)
              => /\ SrcAccept
                 /\ Len(rand_dict'[kk].uu) = rand_dict[kk].pos]_vars

\* An accept that discarded committed values.
C10_Witness ==
    /\ dropped > 0
    /\ \E kk \in DOMAIN rand_dict :
          rand_dict[kk].step = 0 /\ rand_dict[kk].u_prop = rand_dict[kk].uu

\* C1: every value the uniform combination rule produces for a RandClass
\* source, whatever the committed value in [0,1), the direction and the
\* step, lies in [0,1) and is never exactly 1.
C1_ReflectionBound ==
    \A kk \in DOMAIN rand_dict :
        ClassOf(kk) = "RandClass" =>
            \A i \in 1 .. Len(rand_dict[kk].u_prop) :
                /\ rand_dict[kk].u_prop[i] >= 0
                /\ rand_dict[kk].u_prop[i] < One

\* The identity point of a source, with a fresh bracket.
AfterAccept(self) ==
    /\ self.step = 0
    /\ self.u_prop = self.uu
    /\ self.pos = 0
    /\ Len(self.nu) = Len(self.uu)
    /\ self.mn = self.mx - One
    /\ self.mn <= 0
    /\ 0 <= self.mx

\* C11: right after the constructor and right after every accept(), the
\* source has step 0, proposed equal to committed, cursor 0, as many
\* directions as committed values, and a bracket of unit width around 0.
C11_AfterAccept ==
    /\ \A kk \in DOMAIN rand_dict : AfterAccept(rand_dict[kk])
    /\ [][SrcAccept => \A kk \in DOMAIN rand_dict : AfterAccept(rand_dict'[kk])]_vars

\* An accept has committed a proposal: a RandClass source at the identity
\* point holds two committed values, one of them a reflected value that no
\* reservoir draw has.
C11_Witness ==
    \E kk \in DOMAIN rand_dict :
        /\ ClassOf(kk) = "RandClass"
        /\ AfterAccept(rand_dict[kk])
        /\ Len(rand_dict[kk].uu) = 2
        /\ \E i \in 1 .. 2 : rand_dict[kk].uu[i] \notin ReservoirVals

\* C17: in every state of a source the proposed buffer is the combination
\* rule applied, index by index, to the committed and direction buffers at
\* the current step.
C17_ProposedIsCombined ==
    \A kk \in DOMAIN rand_dict :
        LET self == rand_dict[kk]
        IN  /\ Len(self.u_prop) = Len(self.uu)
            /\ Len(self.nu) = Len(self.uu)
            /\ self.u_prop = combine(ClassOf(kk), self.uu, self.nu, self.step)

\* A source at a non-zero step whose reservoir was extended by the emission
\* that has just read its second value, both proposed values differing from
\* the committed ones.
C17_Witness ==
    \E kk \in DOMAIN rand_dict :
        LET self == rand_dict[kk]
        IN  /\ self.step # 0
            /\ Len(self.uu) = 2
            /\ self.pos = 2
            /\ Len(out) = 2
            /\ self.u_prop[1] # self.uu[1]
            /\ self.u_prop[2] # self.uu[2]

\* C18: after accept(), as long as no slice_propose and no extension has
\* followed, what the source emits from cursor 0 is, position by position,
\* what it had emitted in the evaluation before the accept.
C18_AcceptKeepsEmission ==
    accepted # <<>> =>
        \A i \in 1 .. Min(Len(out), Len(accepted[1])) : out[i] = accepted[1][i]

\* After the accept of a proposal of a RandClass source that had emitted
\* two values, one of them reflected, the source has emitted two values
\* again.
C18_Witness ==
    /\ accepted # <<>>
    /\ Len(accepted[1]) = 2
    /\ Len(out) = 2
    /\ \E kk \in DOMAIN rand_dict :
          /\ ClassOf(kk) = "RandClass"
          /\ rand_dict[kk].pos = 2
    /\ \E i \in 1 .. 2 : out[i] \notin ReservoirVals

(***************************************************************************)
(* Claims about update_rand and clamp_rand (Spec, SpecHidden)              *)
(***************************************************************************)
\* C3: between two update_rand calls, every call of the clamped function
\* returns the value its first call with the same theta returned, whatever
\* clamped calls with other arguments came in between.
C3_ClampPurity ==
    last # <<>> =>
        /\ memo[last[1].theta] # <<>>
        /\ memo[last[1].theta][1].val = last[1].val

\* A repeated clamped call, made after another clamped call extended a
\* reservoir.
C3_Witness ==
    /\ last # <<>>
    /\ last[1].again
    /\ memo[last[1].theta][1].grown

\* C4: the Lp update_rand returned is what the clamped function returns for
\* the same theta afterwards.
C4_ReturnedLp ==
    (pc = "done" /\ last # <<>> /\ last[1].theta = args) => last[1].val = Lp

\* The first clamped call after update_rand returned, at its theta, with
\* several normal draws committed.
C4_Witness ==
    /\ pc = "done"
    /\ last # <<>>
    /\ last[1].theta = args
    /\ ~last[1].again
    /\ \A th \in Thetas : th # args => memo[th] = <<>>
    /\ Len(rand_dict["randn"].uu) >= 2
    /\ Len(rand_dict["rand"].uu) = 1

\* C7: with the estimator that breaks the contract, an update_rand whose
\* proposals keep being rejected ends in the failed assertion of
\* slice_shrink: it does not stay in the loop of one source forever.
C7_FatalPath ==
    <>[](pc \in {"loop", "test"}) => <>(pc = "failed")

\* The bracket of the source being updated.
Width(self) == self.mx - self.mn

\* C8 as stated: every slice_shrink of update_rand leaves the bracket
\* strictly narrower, with one bound moved to the rejected step, the other
\* unchanged, and 0 inside.
C8_StrictlyNarrower ==
    [][UR_Shrink =>
          LET a == rand_dict[keys[idx]]
              b == rand_dict'[keys[idx]]
          IN  /\ Width(b) < Width(a)
              /\ \/ b.mx = a.step /\ b.mn = a.mn
                 \/ b.mn = a.step /\ b.mx = a.mx
              /\ b.mn <= 0 /\ 0 <= b.mx]_vars

\* C8 as amended: the bracket is never wider, one bound is the rejected
\* step, the other is unchanged, 0 is inside; and it is strictly narrower
\* unless the step was the very bound it replaces.
C8_NeverWider ==
    [][UR_Shrink =>
          LET a == rand_dict[keys[idx]]
              b == rand_dict'[keys[idx]]
              same == IF a.step > 0 THEN a.step = a.mx ELSE a.step = a.mn
          IN  /\ Width(b) <= Width(a)
              /\ ~same => Width(b) < Width(a)
              /\ \/ b.mx = a.step /\ b.mn = a.mn
                 \/ b.mn = a.step /\ b.mx = a.mx
              /\ b.mn <= 0 /\ 0 <= b.mx]_vars

\* A shrink has narrowed the bracket of the source being updated on both
\* sides.
C8_Witness ==
    /\ pc = "loop"
    /\ Width(rand_dict[keys[idx]]) < One
    /\ rand_dict[keys[idx]].mn = rand_dict[keys[idx]].step
    /\ rand_dict[keys[idx]].mx > 0

\* C13: in one update_rand call the sources are accepted once each in the
\* iteration order of rand_dict; for each source a threshold is drawn from
\* the current Lp, then come rounds of (slice_propose, restart, evaluation),
\* each followed on the same source by slice_shrink if Lp_prop is below the
\* threshold, the last one followed directly by accept with Lp_prop at or
\* above the threshold; the accepted Lp_prop is the Lp of the next threshold.
C13_EventOrder ==
    /\ [](pc = "done" => order = keys)
    /\ [][ev' # ev =>
            CASE ev'.kind = "round" ->
                    /\ ev.kind \in {"threshold", "shrink"}
                    /\ ev.kk = ev'.kk
                    /\ order' = order
              [] ev'.kind = "shrink" ->
                    /\ ev = Event("round", ev'.kk)
                    /\ Lp_prop < Lp_threshold
                    /\ order' = order
              [] ev'.kind = "accept" ->
                    /\ ev = Event("round", ev'.kk)
                    /\ Lp_prop >= Lp_threshold
                    /\ Lp' = Lp_prop
                    /\ order' = Append(order, ev'.kk)
              [] ev'.kind = "threshold" ->
                    /\ ev.kind \in {"call", "accept"}
                    /\ ev'.kk = keys[Len(order) + 1]
                    /\ \E logu \in LogRand : Lp_threshold' = AddLog(Lp, logu)
                    /\ order' = order
              [] ev'.kind = "call" -> ev.kind \in {"none", "clamped", "accept"}
              [] OTHER -> ev.kind \in {"none", "clamped", "accept"}]_vars

\* An update_rand call over two sources has just returned, its last event
\* the accept of the second source.
C13_Witness ==
    /\ pc = "done"
    /\ Len(order) = 2
    /\ order = keys
    /\ ev = Event("accept", keys[2])
    /\ Len(rand_dict["randn"].uu) >= 1

\* C14: every estimator evaluation made by update_rand or by the clamped
\* function starts with the cursor of every source at 0.
C14_CursorsAtZero ==
    eval_in # <<>> => \A kk \in DOMAIN eval_in[1] : eval_in[1][kk] = 0

\* The evaluation of a proposal for the second source has started at
\* cursor 0 everywhere and has moved the cursors of both sources, the one
\* that is not being updated included.
C14_Witness ==
    /\ pc = "test"
    /\ Len(order) = 1
    /\ eval_in # <<>>
    /\ \A kk \in DOMAIN rand_dict : rand_dict[kk].pos > 0

\* The array a is the beginning of the array b.
IsPrefix(a, b) == Len(a) <= Len(b) /\ SubSeq(b, 1, Len(a)) = a

\* The source b is the source a with, at most, its cursor moved and its
\* buffers extended at the end; its step is 0.
Kept(a, b) ==
    /\ a.step = 0 /\ b.step = 0
    /\ b.mx = a.mx /\ b.mn = a.mn
    /\ IsPrefix(a.nu, b.nu)
    /\ IsPrefix(a.uu, b.uu)
    /\ IsPrefix(a.u_prop, b.u_prop)

\* C15: while update_rand is updating one source, every other source keeps
\* its step 0, its bracket, and the directions and values already buffered;
\* at most one source has a non-zero step at any time, and when update_rand
\* has returned every source has step 0 and proposed equal to committed.
C15_OtherSourcesKept ==
    /\ [](Cardinality({kk \in DOMAIN rand_dict : rand_dict[kk].step # 0}) <= 1)
    /\ [](pc = "done" =>
            \A kk \in DOMAIN rand_dict :
                rand_dict[kk].step = 0 /\ rand_dict[kk].u_prop = rand_dict[kk].uu)
    /\ [][(pc = "for" \/ pc = "loop" \/ pc = "test") =>
            \A kk \in DOMAIN rand_dict :
                kk # keys[idx] => Kept(rand_dict[kk], rand_dict'[kk])]_vars

\* While the second source is being updated at a non-zero step, the first,
\* at step 0, has been read by the evaluation and holds two values.
C15_Witness ==
    /\ pc = "test"
    /\ idx = 2
    /\ rand_dict[keys[2]].step # 0
    /\ rand_dict[keys[1]].step = 0
    /\ rand_dict[keys[1]].pos > 0
    /\ Len(rand_dict[keys[1]].uu) = 2

\* C16: with the deterministic estimator and an Lp that is its value at the
\* committed state, the assertion of slice_shrink never fails, the bracket
\* of every source always encloses step 0, a proposal at step 0 gives
\* Lp_prop = Lp, at or above the threshold, and, the steps being chosen
\* fairly, the loop of each source ends in its accept.
C16_LoopAccepts ==
    /\ [](pc # "failed")
    /\ [](\A kk \in DOMAIN rand_dict :
             rand_dict[kk].mn <= 0 /\ 0 <= rand_dict[kk].mx)
    /\ []((pc = "test" /\ rand_dict[keys[idx]].step = 0) =>
             (Lp_prop = Lp /\ Lp_prop >= Lp_threshold))
    /\ (pc = "loop" ~> (pc = "for" \/ pc = "done"))

\* A proposal at step 0 made after a shrink, on the second source, with a
\* finite threshold.
C16_Witness ==
    /\ pc = "test"
    /\ idx = 2
    /\ rand_dict[keys[idx]].step = 0
    /\ Width(rand_dict[keys[idx]]) < One
    /\ Lp_threshold # NegInf
    /\ Len(rand_dict[keys[idx]].uu) >= 1

(***************************************************************************)
(* Claims about slice_sweep (SpecSweep)                                    *)
(***************************************************************************)
\* C5: the state slice_sweep returns has the shape of the array xx it was
\* given, whether or not Lp was supplied.
C5_SameShape ==
    sw_pc = "returned" => ret[1].xx.shape = xx_shape

\* C6: when Lp was supplied, the second element slice_sweep returns is
\* logdist of the state it returns; when Lp was not supplied only the state
\* is returned.
C6_ReturnedLp ==
    sw_pc = "returned" =>
        IF sw_Lp # <<>>
        THEN ret[1].Lp = <<logdist_vec(ret[1].xx, xx_shape)>>
        ELSE ret[1].Lp = <<>>

\* A sweep over two axes, given Lp, returned a state away from 0 after a
\* step-out and a rejected candidate on the last axis.
C6_Witness ==
    /\ sw_pc = "returned"
    /\ sw_Lp # <<>>
    /\ Size(ret[1].xx) = 2
    /\ evals = {"x_l", "x_r", "rejected", "accepted"}
    /\ ret[1].xx.data[dd] # 0
    /\ ret[1].Lp # sw_Lp

\* C12 as stated: with a deterministic logdist and an Lp that is logdist(xx)
\* when supplied, slice_sweep never raises the exception of its inner loop,
\* whatever value logdist has at the starting point.
C12_NeverRaises ==
    sw_pc # "raised"

\* C12 as amended: the exception is raised only where logdist of the
\* current state is -inf; where it is finite no rejected candidate equals
\* the current axis value.
C12_RaisesOnlyAtMinusInf ==
    sw_pc = "raised" =>
        /\ logdist_vec(xx, xx_shape) = NegInf
        /\ ~(log_uprime < logdist_vec(xx, xx_shape))

\* At a state of finite log-density and a finite slice level, a candidate
\* on the grid point next to the current axis value was rejected and the
\* inner loop goes on.
C12_Witness ==
    /\ sw_pc = "inner"
    /\ "rejected" \in evals
    /\ logdist_vec(xx, xx_shape) # NegInf
    /\ log_uprime # NegInf
    /\ Abs(xprime.data[dd] - xx.data[dd]) = 1

\* C19: a sweep that returned has committed every axis exactly once; while
\* an axis is being updated x_l, x_r and xprime differ from the state xx in
\* that coordinate at most; between two axes they are equal to xx.
C19_OneAxisAtATime ==
    /\ sw_pc = "returned" =>
          /\ Len(updated) = Size(xx)
          /\ \A d \in 1 .. Size(xx) : \E i \in 1 .. Len(updated) : updated[i] = d
    /\ sw_pc \in {"out_l", "out_r", "inner", "commit", "raised"} =>
          \A i \in 1 .. Size(xx) :
              i # dd => /\ x_l.data[i] = xx.data[i]
                        /\ x_r.data[i] = xx.data[i]
                        /\ xprime.data[i] = xx.data[i]
    /\ sw_pc \in {"axis", "return", "returned"} =>
          x_l = xx /\ x_r = xx /\ xprime = xx

\* The second axis of a sweep is being updated after a rejected candidate,
\* the first axis holding a committed value that is no starting value.
C19_Witness ==
    /\ sw_pc = "inner"
    /\ axis = 2
    /\ "rejected" \in evals
    /\ xx.data[perm[1]] \notin StartVals
    /\ updated = <<perm[1]>>
    /\ x_l.data[dd] # xx.data[dd]
    /\ xprime.data[dd] # xx.data[dd]

\* C20: the array an emission returns is a copy.  A caller writing into a
\* returned array leaves every buffer and bound of the source as it was, and
\* after such writes a replay from a restarted cursor still returns the
\* values of the pass before it, position by position.
C20_ReturnedIsCopy ==
    /\ [][SrcMutate => rand_dict' = rand_dict]_vars
    /\ []((held # <<>> /\ held[1].dirty /\ clean) =>
            \A i \in 1 .. Min(Len(out), Len(prev)) : out[i] = prev[i])

\* The caller wrote into a returned array, the cursor was restarted, and
\* the replay of two positions has been emitted.
C20_Witness ==
    /\ held # <<>> /\ held[1].dirty
    /\ clean /\ Len(prev) = 2 /\ Len(out) = 2
    /\ \E kk \in DOMAIN rand_dict : rand_dict[kk].step > 0
====
